---- MODULE Spec2Model ----
(***************************************************************************)
(* LiveSessionManager (src/services/liveSessionManager.ts) as a state      *)
(* machine.  Every asynchronous function of the class is split at its      *)
(* await points: one action per synchronous stretch of code.  The browser  *)
(* (microphone permission, audio contexts and their clock) and the remote  *)
(* transport (establishment, messages, error, close) are the environment.  *)
(***************************************************************************)
EXTENDS Integers, Sequences, FiniteSets

\* ---- bounds of the model ----
MaxCalls == 2      \* connect() invocations, lifecycle
MaxDiscs == 1      \* disconnect() invocations, lifecycle
CapCalls == 1      \* connect() invocations, capture
CapDiscs == 1      \* disconnect() invocations, capture
TeardownCalls == 1 \* connect() invocations, repeated teardown
TeardownDiscs == 2 \* disconnect() invocations, repeated teardown
MaxFrames == 2     \* captured frames queued for one session
MaxMsgs == 2       \* transport messages delivered
MaxTime == 2       \* ticks of the playback clock
MaxDur == 1        \* longest decoded chunk, in ticks
MaxLen == 2        \* samples in a frame given to createBlob
MaxOff == 8        \* distance of a sample from -1, 0 or 1, in sample steps
MaxRuns == 3       \* runs of the live-session effect of a voice component
UnmountCalls == 1  \* connect() invocations of a welcome screen
WelcomeCalls == 2  \* connect() invocations by toggleConnection
WelcomeDiscs == 1  \* disconnect() invocations by toggleConnection
ReplayCalls == 2   \* connect() invocations with audio traffic
MaxIdeas == 2      \* ideas of the project shown
MaxBase == 1       \* largest vote count an idea is loaded with
MaxStored == 1     \* largest vote count stored locally before the page loads
MaxVotes == 3      \* presses of a vote button
ReplayDiscs == 1   \* disconnect() invocations between them

\* ---- encodings ----
Null == 0          \* a null reference (sessionPromise, audio contexts, gain)
NoAudio == 0       \* message without inlineData
BadAudio == -1     \* message whose audio fails to decode
Durations == 1..MaxDur
AudioKinds == {NoAudio, BadAudio} \cup Durations

VARIABLES
  active,             \* this.active
  sessionPromise,     \* this.sessionPromise: Null or a session id
  inputAudioContext,  \* this.inputAudioContext: Null or a context id
  outputAudioContext, \* this.outputAudioContext: Null or a context id
  outputGain,         \* this.outputGain: Null or the context id it belongs to
  nextStartTime,      \* this.nextStartTime
  sources,            \* this.sources: set of chunk ids (indices of sched)
  calls,              \* connect() invocations, in call order
  discs,              \* disconnect() invocations, in call order
  ctxs,               \* audio context pairs created by connect()
  sessions,           \* transport sessions created by client.live.connect
  handlers,           \* onmessage invocations suspended at an await
  sched,              \* audioSource.start() calls and interruptions, in order
  msgCount,           \* messages delivered so far
  since               \* what happened since the last call of the API:
                      \* "connect": a connect() call and no deactivation after
                      \* it; "event": a connect() call, then a denial, error
                      \* or close; "disconnect": a disconnect() call and no
                      \* connect() after it; "none": no call yet
  ,codec              \* one run of the PCM helpers of gemini.ts: the sample
                      \* frame and what createBlob, decode and decodeAudioData
                      \* made of it
  ,agent              \* the live-session effect of a voice component of
                      \* part_003 (BeaverAgent, LiveAssistant)
  ,welcome            \* BeaverWelcome: its isConnected state and the
                      \* toggleConnection invocation in progress
  ,detail             \* ProjectDetail: the stored and the displayed votes

vars == <<active, sessionPromise, inputAudioContext, outputAudioContext,
          outputGain, nextStartTime, sources, calls, discs, ctxs, sessions,
          handlers, sched, msgCount, since, codec, agent, welcome, detail>>

\* the components around the manager
views == <<agent, welcome, detail>>

mgr == <<active, sessionPromise, inputAudioContext, outputAudioContext,
         outputGain, nextStartTime, sources>>

\* no frame has been handed to the PCM helpers
NoCodec == [pc |-> "idle", samples |-> <<>>, blob |-> <<>>, bytes |-> <<>>,
            out |-> <<>>]

\* no voice component of part_003 is mounted
NoAgent == [kind |-> "none"]

\* no welcome screen is mounted
NoWelcome == [pc |-> "none"]

\* no project detail view is open
NoDetail == [pc |-> "none"]

Max(a, b) == IF a >= b THEN a ELSE b

RemoveAt(s, i) == SubSeq(s, 1, i - 1) \o SubSeq(s, i + 1, Len(s))

Init ==
  /\ active = FALSE
  /\ sessionPromise = Null
  /\ inputAudioContext = Null
  /\ outputAudioContext = Null
  /\ outputGain = Null
  /\ nextStartTime = 0
  /\ sources = {}
  /\ calls = <<>>
  /\ discs = <<>>
  /\ ctxs = <<>>
  /\ sessions = <<>>
  /\ handlers = <<>>
  /\ sched = <<>>
  /\ msgCount = 0
  /\ since = "none"
  /\ codec = NoCodec
  /\ agent = NoAgent
  /\ welcome = NoWelcome
  /\ detail = NoDetail

\* `since` after a denial, a transport error or a transport close
Deactivated == IF since = "connect" THEN "event" ELSE since

\* ---- the welcome screen, BeaverWelcome.tsx lines 10-48 ----
\* a mounted welcome screen: pc is "idle", "connect" (toggleConnection
\* suspended at `await connect(...)`, line 30) or "disconnect" (suspended at
\* `await disconnect()`, line 26); at: the invocation it awaits; isConnected:
\* the state of line 11
NewWelcome == [pc |-> "idle", isConnected |-> FALSE, at |-> Null]

\* lines 32-36, the onError callback handed to connect(); a manager used
\* without a welcome screen has no such state to set
OnErrorCallback(w) ==
  IF w.pc = "none" THEN w ELSE [w EXCEPT !.isConnected = FALSE]

\* lines 37-42, the onConnected callback handed to connect()
OnConnectedCallback(w) ==
  IF w.pc = "none" THEN w ELSE [w EXCEPT !.isConnected = TRUE]

\* line 30: toggleConnection awaits invocation c of connect()
AwaitConnect(w, c) ==
  IF w.pc = "none" THEN w ELSE [w EXCEPT !.pc = "connect", !.at = c]

\* line 26: toggleConnection awaits invocation d of disconnect()
AwaitDisconnect(w, d) ==
  IF w.pc = "none" THEN w ELSE [w EXCEPT !.pc = "disconnect", !.at = d]

\* ---- records ----
\* a connect() invocation: pc is "noop" (returned at the guard), "mic"
\* (suspended at getUserMedia), "granted" or "denied"; ctx is the context pair
\* it created, sess the transport session it opened, errs the number of times
\* its onError callback ran; b2b: the call came back-to-back after another
\* connect() call, with no deactivation of the manager in between;
\* cancelled: disconnect() was called while the call was suspended;
\* stream: the MediaStream of the microphone (line 47), "none" until
\* getUserMedia resolves with a "live" stream
NewCall(p, c, q) ==
  [pc |-> p, ctx |-> c, sess |-> Null, errs |-> 0, b2b |-> q,
   cancelled |-> FALSE, stream |-> "none"]

\* new AudioContext(): both contexts of a pair start in the same state,
\* "running" or (autoplay policy) "suspended"; currentTime starts at 0
NewCtx(st) == [inp |-> st, out |-> st, clock |-> 0]

\* client.live.connect(): st is "pending", "open", "failed" (the promise
\* rejected) or "closed"; closeEvt: an onclose callback is still to be
\* delivered; call: the connect() invocation whose closures the callbacks are;
\* capCtx: the context onaudioprocess was wired on (Null: not wired);
\* queued: send continuations waiting on the promise; sends: calls of
\* sendRealtimeInput on the session; dropped: continuations that skipped it
NewSession(c) ==
  [st |-> "pending", closeEvt |-> FALSE, call |-> c, capCtx |-> Null,
   queued |-> 0, sends |-> 0, dropped |-> 0]

Live(s) == sessions[s].st \in {"pending", "open"}

CloseCtx(cs, k) ==
  IF k = Null THEN cs
  ELSE [cs EXCEPT ![k] = [@ EXCEPT !.inp = "closed", !.out = "closed"]]

\* AudioContext.resume(): takes effect on a suspended context when the
\* browser allows it (ok); a running or closed context stays as it is
ResumeCtx(st, ok) == IF st = "suspended" /\ ok THEN "running" ELSE st

\* ---- connect(), lines 24-61 ----
\* connect() without its guard
ConnectGuardSkipped == FALSE

\* line 29: `if (this.active) return`
ConnectGuard == active

\* lines 24-50: up to the suspension at getUserMedia
ConnectCall ==
  /\ since' = "connect"
  /\ IF ConnectGuard
     THEN /\ calls' = Append(calls, NewCall("noop", Null, since = "connect"))
          /\ UNCHANGED <<mgr, ctxs>>
     ELSE \E st \in {"suspended", "running"} :
          /\ active' = TRUE
          /\ ctxs' = Append(ctxs, NewCtx(st))
          /\ inputAudioContext' = Len(ctxs) + 1
          /\ outputAudioContext' = Len(ctxs) + 1
          /\ outputGain' = Len(ctxs) + 1
          /\ calls' = Append(calls, NewCall("mic", Len(ctxs) + 1, since = "connect"))
          /\ UNCHANGED <<sessionPromise, nextStartTime, sources>>
  /\ UNCHANGED <<discs, sessions, handlers, sched, msgCount>>
  /\ UNCHANGED <<codec, agent, detail>>
  /\ welcome' = AwaitConnect(welcome, Len(calls) + 1)

\* a denial path that reports the error but leaves this.active set
MicDeniedStaysActive(c) ==
  /\ calls[c].pc = "mic"
  /\ calls' = [calls EXCEPT ![c] = [@ EXCEPT !.pc = "denied", !.errs = @ + 1]]
  /\ since' = Deactivated
  /\ UNCHANGED <<mgr, discs, ctxs, sessions, handlers, sched, msgCount>>
  /\ UNCHANGED <<codec, views>>

\* lines 52-57: getUserMedia rejected
MicDenied(c) ==
  /\ calls[c].pc = "mic"
  /\ calls' = [calls EXCEPT ![c] = [@ EXCEPT !.pc = "denied", !.errs = @ + 1]]
  /\ active' = FALSE
  /\ since' = Deactivated
  /\ UNCHANGED <<sessionPromise, inputAudioContext, outputAudioContext,
                 outputGain, nextStartTime, sources, discs, ctxs, sessions,
                 handlers, sched, msgCount>>
  /\ UNCHANGED <<codec, agent, detail>>
  /\ welcome' = OnErrorCallback(welcome)

\* lines 51, 59-61: getUserMedia resolved, client.live.connect is called
MicGranted(c) ==
  /\ calls[c].pc = "mic"
  /\ sessions' = Append(sessions, NewSession(c))
  /\ sessionPromise' = Len(sessions) + 1
  /\ calls' = [calls EXCEPT ![c] = [@ EXCEPT !.pc = "granted",
                                             !.stream = "live",
                                             !.sess = Len(sessions) + 1]]
  /\ UNCHANGED <<active, inputAudioContext, outputAudioContext, outputGain,
                 nextStartTime, sources, discs, ctxs, handlers, sched,
                 msgCount, since>>
  /\ UNCHANGED <<codec, views>>

\* lines 64-105: onopen; the session promise resolves with the session
TransportOpen(s) ==
  /\ sessions[s].st = "pending"
  /\ \E ok \in BOOLEAN :
       ctxs' = [k \in DOMAIN ctxs |->
                  [ctxs[k] EXCEPT
                     !.inp = IF k = inputAudioContext
                             THEN ResumeCtx(@, ok) ELSE @,
                     !.out = IF k = outputAudioContext
                             THEN ResumeCtx(@, ok) ELSE @]]
  /\ sessions' = [sessions EXCEPT ![s] =
                    [@ EXCEPT !.st = "open", !.capCtx = inputAudioContext]]
  /\ UNCHANGED <<mgr, calls, discs, handlers, sched, msgCount,
                 since>>
  /\ UNCHANGED <<codec, agent, detail>>
  /\ welcome' = OnConnectedCallback(welcome)

\* the transport could not be established: onerror (lines 173-177) runs and
\* the session promise rejects
TransportFail(s) ==
  /\ sessions[s].st = "pending"
  /\ sessions' = [sessions EXCEPT ![s] = [@ EXCEPT !.st = "failed"]]
  /\ calls' = [calls EXCEPT ![sessions[s].call] = [@ EXCEPT !.errs = @ + 1]]
  /\ active' = FALSE
  /\ since' = Deactivated
  /\ UNCHANGED <<sessionPromise, inputAudioContext, outputAudioContext,
                 outputGain, nextStartTime, sources, discs, ctxs, handlers,
                 sched, msgCount>>
  /\ UNCHANGED <<codec, agent, detail>>
  /\ welcome' = OnErrorCallback(welcome)

\* an onerror handler that reports the error and leaves the flag alone
TransportErrorStaysActive(s) ==
  /\ sessions[s].st = "open"
  /\ sessions' = [sessions EXCEPT ![s] =
                    [@ EXCEPT !.st = "closed", !.closeEvt = TRUE]]
  /\ calls' = [calls EXCEPT ![sessions[s].call] = [@ EXCEPT !.errs = @ + 1]]
  /\ UNCHANGED <<mgr, discs, ctxs, handlers, sched, msgCount, since>>
  /\ UNCHANGED <<codec, views>>

\* lines 173-177: onerror on an established transport; the transport is
\* dead afterwards and its close event follows
TransportError(s) ==
  /\ sessions[s].st = "open"
  /\ sessions' = [sessions EXCEPT ![s] =
                    [@ EXCEPT !.st = "closed", !.closeEvt = TRUE]]
  /\ calls' = [calls EXCEPT ![sessions[s].call] = [@ EXCEPT !.errs = @ + 1]]
  /\ active' = FALSE
  /\ since' = Deactivated
  /\ UNCHANGED <<sessionPromise, inputAudioContext, outputAudioContext,
                 outputGain, nextStartTime, sources, discs, ctxs, handlers,
                 sched, msgCount>>
  /\ UNCHANGED <<codec, agent, detail>>
  /\ welcome' = OnErrorCallback(welcome)

\* an onclose handler that releases what disconnect() releases
TransportCloseReleases(s) ==
  /\ sessions[s].st = "open" \/ sessions[s].closeEvt
  /\ sessions' = [sessions EXCEPT ![s] =
                    [@ EXCEPT !.st = "closed", !.closeEvt = FALSE]]
  /\ active' = FALSE
  /\ since' = Deactivated
  /\ ctxs' = CloseCtx(CloseCtx(ctxs, inputAudioContext), outputAudioContext)
  /\ sources' = {}
  /\ sessionPromise' = Null
  /\ UNCHANGED <<inputAudioContext, outputAudioContext, outputGain,
                 nextStartTime, calls, discs, handlers, sched, msgCount>>
  /\ UNCHANGED <<codec, views>>

\* an onclose handler that opens a new transport by itself
TransportCloseReconnects(s) ==
  /\ sessions[s].st = "open" \/ sessions[s].closeEvt
  /\ sessions' = Append([sessions EXCEPT ![s] =
                           [@ EXCEPT !.st = "closed", !.closeEvt = FALSE]],
                        NewSession(sessions[s].call))
  /\ sessionPromise' = Len(sessions) + 1
  /\ since' = Deactivated
  /\ UNCHANGED <<active, inputAudioContext, outputAudioContext, outputGain,
                 nextStartTime, sources, calls, discs, ctxs, handlers, sched,
                 msgCount>>
  /\ UNCHANGED <<codec, views>>

\* lines 169-172: onclose, when the remote end closes an established
\* transport or after session.close() or an error
TransportClose(s) ==
  /\ sessions[s].st = "open" \/ sessions[s].closeEvt
  /\ sessions' = [sessions EXCEPT ![s] =
                    [@ EXCEPT !.st = "closed", !.closeEvt = FALSE]]
  /\ active' = FALSE
  /\ since' = Deactivated
  /\ UNCHANGED <<sessionPromise, inputAudioContext, outputAudioContext,
                 outputGain, nextStartTime, sources, calls, discs, ctxs,
                 handlers, sched, msgCount>>
  /\ UNCHANGED <<codec, views>>

\* ---- disconnect(), lines 208-228 ----
\* a close() that raises on a context field that was never set
CloseRaisesOnMissing(k) == k = Null

\* lines 219-220: `?.close()` skips a context field that was never set, and
\* the promise close() returns on a context (closed already or not) is not
\* awaited: nothing is raised into disconnect()
CloseRaises(k) == FALSE

\* whether lines 219-220 raise
TailRaises == CloseRaises(inputAudioContext) \/ CloseRaises(outputAudioContext)

\* last lines of disconnect() that leave this.sessionPromise as it is
DisconnectTailKeepsReference ==
  /\ ctxs' = CloseCtx(CloseCtx(ctxs, inputAudioContext), outputAudioContext)
  /\ sources' = {}
  /\ UNCHANGED sessionPromise

\* lines 219-227: closes the contexts the fields name now, stops and clears
\* the scheduled chunks (a stop() that throws is caught, lines 222-224),
\* clears the session reference
DisconnectTail ==
  IF TailRaises
  THEN UNCHANGED <<ctxs, sources, sessionPromise>>
  ELSE /\ ctxs' = CloseCtx(CloseCtx(ctxs, inputAudioContext),
                           outputAudioContext)
       /\ sources' = {}
       /\ sessionPromise' = Null

\* how an invocation that ran lines 219-227 ends
TailPc == IF TailRaises THEN "threw" ELSE "done"

\* a disconnect() invocation: pc is "await" (suspended at the session
\* promise), "done" (resolved) or "threw" (rejected); promise is the promise
\* it awaits; caught, whether its try block (lines 212-215) failed
NewDisc(p, sp) == [pc |-> p, promise |-> sp, caught |-> FALSE]

\* a disconnect() that marks the manager inactive only in its last lines
DisconnectCallMarksLate ==
  /\ since' = "disconnect"
  /\ IF sessionPromise # Null
     THEN /\ discs' = Append(discs, NewDisc("await", sessionPromise))
          /\ UNCHANGED <<active, sessionPromise, sources, ctxs>>
     ELSE /\ discs' = Append(discs, NewDisc(TailPc, Null))
          /\ active' = FALSE
          /\ DisconnectTail
  /\ calls' = [c \in DOMAIN calls |->
                [calls[c] EXCEPT !.cancelled = @ \/ calls[c].pc = "mic"]]
  /\ UNCHANGED <<inputAudioContext, outputAudioContext, outputGain,
                 nextStartTime, sessions, handlers, sched, msgCount>>
  /\ UNCHANGED <<codec, views>>

\* lines 208-213: marks the manager inactive, then awaits the session
\* promise when there is one, else runs to the end
DisconnectCall ==
  /\ active' = FALSE
  /\ since' = "disconnect"
  /\ IF sessionPromise # Null
     THEN /\ discs' = Append(discs, NewDisc("await", sessionPromise))
          /\ UNCHANGED <<sessionPromise, sources, ctxs>>
     ELSE /\ discs' = Append(discs, NewDisc(TailPc, Null))
          /\ DisconnectTail
  /\ calls' = [c \in DOMAIN calls |->
                [calls[c] EXCEPT !.cancelled = @ \/ calls[c].pc = "mic"]]
  /\ UNCHANGED <<inputAudioContext, outputAudioContext, outputGain,
                 nextStartTime, sessions, handlers, sched, msgCount>>
  /\ UNCHANGED <<codec, agent, detail>>
  /\ welcome' = AwaitDisconnect(welcome, Len(discs) + 1)

\* session.close() (line 214): an established transport is closed and its
\* close event will be delivered; on any other the call changes nothing
CloseSession(ss, p) ==
  IF ss[p].st = "open"
  THEN [ss EXCEPT ![p] = [@ EXCEPT !.st = "closed", !.closeEvt = TRUE]]
  ELSE ss

\* what session.close() can do on the settled promise p: on a rejected
\* promise it is never reached; on a transport that is closed already the
\* library may return or throw
CloseThrows(p) ==
  IF sessions[p].st = "closed" /\ ~sessions[p].closeEvt
  THEN BOOLEAN ELSE {FALSE}

\* a disconnect() without the try/catch
FailureEscapesTry == TRUE

\* lines 216-218: the catch block logs the failure and goes on
FailureEscapes == FALSE

\* lines 213-227: the awaited promise has settled; a rejection of the
\* promise or a throwing close() is caught, and the last lines run
DisconnectResume(d) ==
  /\ discs[d].pc = "await"
  /\ sessions[discs[d].promise].st # "pending"
  /\ \E thrown \in CloseThrows(discs[d].promise) :
       LET failed == sessions[discs[d].promise].st = "failed" \/ thrown
       IN  IF failed /\ FailureEscapes
           THEN /\ discs' = [discs EXCEPT ![d] =
                               [@ EXCEPT !.pc = "threw", !.caught = TRUE]]
                /\ UNCHANGED <<sessions, ctxs, sources, sessionPromise>>
           ELSE /\ discs' = [discs EXCEPT ![d] =
                               [@ EXCEPT !.pc = TailPc, !.caught = failed]]
                /\ sessions' = CloseSession(sessions, discs[d].promise)
                /\ DisconnectTail
  /\ UNCHANGED <<active, inputAudioContext, outputAudioContext, outputGain,
                 nextStartTime, calls, handlers, sched, msgCount,
                 since>>
  /\ UNCHANGED <<codec, views>>

\* ---- capture, lines 80-98 ----
\* line 81: `if (!this.active) return`
FrameGuard == active

\* a continuation that sends without looking at this.active
SendGuardSkipped == TRUE

\* line 94: `if (this.active)` in the continuation on the session promise
SendGuard == active

\* frames handed to the promise of session p so far
Frames(p) == sessions[p].queued + sessions[p].sends + sessions[p].dropped

\* lines 80-93: onaudioprocess of the processor wired by session s; the
\* send is queued on the promise this.sessionPromise names at that moment
FrameCallback(s) ==
  /\ sessions[s].capCtx # Null
  /\ ctxs[sessions[s].capCtx].inp = "running"
  /\ sessionPromise # Null => Frames(sessionPromise) < MaxFrames
  /\ IF FrameGuard /\ sessionPromise # Null
     THEN sessions' = [sessions EXCEPT ![sessionPromise] =
                         [@ EXCEPT !.queued = @ + 1]]
     ELSE UNCHANGED sessions
  /\ UNCHANGED <<mgr, calls, discs, ctxs, handlers, sched, msgCount, since>>
  /\ UNCHANGED <<codec, views>>

\* lines 93-97: the continuation runs once the promise has resolved
SendContinuation(p) ==
  /\ sessions[p].queued > 0
  /\ sessions[p].st \in {"open", "closed"}
  /\ sessions' = [sessions EXCEPT ![p] =
                    [@ EXCEPT !.queued = @ - 1,
                              !.sends = IF SendGuard THEN @ + 1 ELSE @,
                              !.dropped = IF SendGuard THEN @ ELSE @ + 1]]
  /\ UNCHANGED <<mgr, calls, discs, ctxs, handlers, sched, msgCount, since>>
  /\ UNCHANGED <<codec, views>>

\* ---- onmessage, lines 106-168 ----
\* lines 107-108: `if (!this.active || !this.outputAudioContext ||
\* !this.outputGain) return`
MessageGuard ==
  active /\ outputAudioContext # Null /\ outputGain # Null

\* a cursor that follows the playback clock only
CursorIsClock(nst, now) == now

\* lines 125-128: Math.max(this.nextStartTime, currentTime)
CursorAtReceipt(nst, now) == Max(nst, now)

\* a cursor that is not advanced past the chunk just started
AdvanceCursorForgotten(nst, d) == nst

\* a cursor that is set to the duration instead of advanced by it
AdvanceCursorAssigns(nst, d) == d

\* line 147: this.nextStartTime += audioBuffer.duration
AdvanceCursor(nst, d) == nst + d

\* sources stopped but left in the set
StopAllKeepsSet(srcs) == srcs

\* lines 160-165: every source is stopped and the set cleared
StopAll(srcs) == {}

\* line 166: this.nextStartTime = 0
CursorAfterInterrupt == 0

Clock == ctxs[outputAudioContext].clock

\* late: the message that carried the chunk was received before an
\* interruption that was processed before the chunk was started
Chunk(st, d, s, l) ==
  [kind |-> "chunk", start |-> st, dur |-> d, sess |-> s, at |-> Clock,
   ctx |-> outputAudioContext, late |-> l]

\* the handlers in flight while an interruption is processed (i) are handlers
\* of messages received before it; o: the observation is recorded
Overtaken(hs, i, o) ==
  IF i /\ o THEN [k \in DOMAIN hs |-> [hs[k] EXCEPT !.late = TRUE]] ELSE hs

\* audio: what the interrupted message carried besides the flag
Interruption(s, a) ==
  [kind |-> "interrupt", start |-> 0, dur |-> 0, sess |-> s, at |-> Clock,
   ctx |-> outputAudioContext, audio |-> a]

\* lines 157-167, run with cursor nst, set srcs and log sc as the audio part
\* of the handler left them
Interrupted(i, s, a, nst, srcs, sc) ==
  IF i
  THEN /\ sources' = StopAll(srcs)
       /\ nextStartTime' = CursorAfterInterrupt
       /\ sched' = Append(sc, Interruption(s, a))
  ELSE /\ sources' = srcs
       /\ nextStartTime' = nst
       /\ sched' = sc

\* lines 106-129: a message arrives on an established transport; the handler
\* runs to its first await (resume of a suspended context, else decode), or
\* to its end when the message carries no audio
Message(s, a, i, o) ==
  /\ msgCount < MaxMsgs
  /\ sessions[s].st = "open"
  /\ msgCount' = msgCount + 1
  /\ IF ~MessageGuard
     THEN UNCHANGED <<nextStartTime, sources, sched, handlers>>
     ELSE IF a = NoAudio
     THEN /\ Interrupted(i, s, a, nextStartTime, sources, sched)
          /\ handlers' = Overtaken(handlers, i, o)
     ELSE IF ctxs[outputAudioContext].out = "suspended"
     THEN /\ handlers' = Append(handlers,
                 [pc |-> "resume", sess |-> s, audio |-> a, interrupted |-> i,
                  ctx |-> outputAudioContext, late |-> FALSE])
          /\ UNCHANGED <<nextStartTime, sources, sched>>
     ELSE /\ nextStartTime' = CursorAtReceipt(nextStartTime, Clock)
          /\ handlers' = Append(handlers,
                 [pc |-> "decode", sess |-> s, audio |-> a, interrupted |-> i,
                  ctx |-> outputAudioContext, late |-> FALSE])
          /\ UNCHANGED <<sources, sched>>
  /\ UNCHANGED <<active, sessionPromise, inputAudioContext, outputAudioContext,
                 outputGain, calls, discs, ctxs, sessions, since>>
  /\ UNCHANGED <<codec, views>>

\* lines 122-129: resume() of the context resolved; the handler goes on to
\* the decode with the context the field names now.  A resume() requested
\* before close() may still resolve after it (the context stays closed) or
\* reject (ResumeRejected): the browser decides
ResumeDone(h) ==
  /\ handlers[h].pc = "resume"
  /\ ctxs' = [ctxs EXCEPT ![handlers[h].ctx] =
                [@ EXCEPT !.out = IF @ = "closed" THEN @ ELSE "running"]]
  /\ nextStartTime' = CursorAtReceipt(nextStartTime, Clock)
  /\ handlers' = [handlers EXCEPT ![h] =
                    [@ EXCEPT !.pc = "decode", !.ctx = outputAudioContext]]
  /\ UNCHANGED <<active, sessionPromise, inputAudioContext, outputAudioContext,
                 outputGain, sources, calls, discs, sessions, sched, msgCount, since>>
  /\ UNCHANGED <<codec, views>>

\* line 122: resume() of a context closed meanwhile rejects; the await is
\* outside the try block, so the handler ends there
ResumeRejected(h) ==
  /\ handlers[h].pc = "resume"
  /\ ctxs[handlers[h].ctx].out = "closed"
  /\ handlers' = RemoveAt(handlers, h)
  /\ UNCHANGED <<mgr, calls, discs, ctxs, sessions, sched, msgCount, since>>
  /\ UNCHANGED <<codec, views>>

\* an interruption flag that is lost when the decode failed
FlagLostAfterFailure(i) == FALSE

\* lines 152-157: the catch block logs the failure, and the test of the
\* interruption flag comes after the try statement
FlagAfterFailure(i) == i

\* lines 130-167: the decode settled; a decoded buffer is started at the
\* cursor, a failure is caught; then the interruption flag is handled
DecodeDone(h, o) ==
  /\ handlers[h].pc = "decode"
  /\ LET m == handlers[h]
         ok == m.audio # BadAudio
         nst == IF ok THEN AdvanceCursor(nextStartTime, m.audio)
                ELSE nextStartTime
         sc == IF ok THEN Append(sched, Chunk(nextStartTime, m.audio, m.sess,
                                              m.late))
               ELSE sched
         srcs == IF ok THEN sources \cup {Len(sched) + 1} ELSE sources
         i == IF ok THEN m.interrupted ELSE FlagAfterFailure(m.interrupted)
     IN  /\ Interrupted(i, m.sess, m.audio, nst, srcs, sc)
         /\ handlers' = Overtaken(RemoveAt(handlers, h), i, o)
  /\ UNCHANGED <<active, sessionPromise, inputAudioContext, outputAudioContext,
                 outputGain, calls, discs, ctxs, sessions, msgCount, since>>
  /\ UNCHANGED <<codec, views>>

\* an ended listener that empties the set
OnEndedClears(srcs, c) == {}

\* line 143: this.sources.delete(audioSource), in the listener of chunk c
OnEnded(srcs, c) == srcs \ {c}

\* lines 142-144: the "ended" event of a chunk that played to its end
Ended(c) ==
  /\ c \in sources
  /\ ctxs[sched[c].ctx].out = "running"
  /\ ctxs[sched[c].ctx].clock >= Max(sched[c].start, sched[c].at) + sched[c].dur
  /\ sources' = OnEnded(sources, c)
  /\ UNCHANGED <<active, sessionPromise, inputAudioContext, outputAudioContext,
                 outputGain, nextStartTime, calls, discs, ctxs, sessions,
                 handlers, sched, msgCount, since>>
  /\ UNCHANGED <<codec, views>>

\* AudioContext.currentTime of the playback context advances while it runs
Tick ==
  /\ outputAudioContext # Null
  /\ ctxs[outputAudioContext].out = "running"
  /\ Clock < MaxTime
  /\ ctxs' = [ctxs EXCEPT ![outputAudioContext] = [@ EXCEPT !.clock = @ + 1]]
  /\ UNCHANGED <<mgr, calls, discs, sessions, handlers, sched, msgCount, since>>
  /\ UNCHANGED <<codec, views>>

\* the manager's lifecycle: at most nc calls of connect() and nd of
\* disconnect(), the microphone permission, the transport's establishment,
\* error and close
Lifecycle(nc, nd) ==
  \/ Len(calls) < nc /\ ConnectCall
  \/ \E c \in DOMAIN calls : MicDenied(c)
  \/ \E c \in DOMAIN calls : MicGranted(c)
  \/ \E s \in DOMAIN sessions : TransportOpen(s)
  \/ \E s \in DOMAIN sessions : TransportFail(s)
  \/ \E s \in DOMAIN sessions : TransportError(s)
  \/ \E s \in DOMAIN sessions : TransportClose(s)
  \/ Len(discs) < nd /\ DisconnectCall
  \/ \E d \in DOMAIN discs : DisconnectResume(d)

\* the capture path: frames of the microphone stream and their sends
Capture ==
  \/ \E s \in DOMAIN sessions : FrameCallback(s)
  \/ \E p \in DOMAIN sessions : SendContinuation(p)

\* the playback path: transport messages, their handlers' continuations,
\* chunk completion and the playback clock
Playback(o) ==
  \/ \E s \in DOMAIN sessions, a \in AudioKinds, i \in BOOLEAN :
       Message(s, a, i, o)
  \/ \E h \in DOMAIN handlers : ResumeDone(h)
  \/ \E h \in DOMAIN handlers : ResumeRejected(h)
  \/ \E h \in DOMAIN handlers : DecodeDone(h, o)
  \/ \E c \in sources : Ended(c)
  \/ Tick

Next == Lifecycle(MaxCalls, MaxDiscs)

NextCapture == Lifecycle(CapCalls, CapDiscs) \/ Capture

\* one session's lifetime: a single connect() and a single disconnect()
NextPlay == Lifecycle(1, 1) \/ Playback(FALSE)

\* the same, with the handlers that an interruption overtakes observed
NextInterrupt == Lifecycle(1, 1) \/ Playback(TRUE)

\* connect(), disconnect() and the transport, without audio traffic
Spec == Init /\ [][Next]_vars

\* one manager with microphone frames arriving
SpecCapture == Init /\ [][NextCapture]_vars

\* one session with transport messages arriving and the playback clock
\* running
SpecPlay == Init /\ [][NextPlay]_vars

\* a session with audio traffic that ends with disconnect(), and after the
\* disconnect() has returned a second session; the microphone is granted and
\* the transport raises no error
NextReplay ==
  \/ /\ Len(calls) < ReplayCalls
     /\ calls = <<>> \/ (discs # <<>> /\ \A d \in DOMAIN discs : discs[d].pc # "await")
     /\ ConnectCall
  \/ \E c \in DOMAIN calls : MicGranted(c)
  \/ \E s \in DOMAIN sessions : TransportOpen(s)
  \/ \E s \in DOMAIN sessions : sessions[s].closeEvt /\ TransportClose(s)
  \/ Len(discs) < ReplayDiscs /\ DisconnectCall
  \/ \E d \in DOMAIN discs : DisconnectResume(d)
  \/ Playback(FALSE)

SpecReplay == Init /\ [][NextReplay]_vars

\* one session with messages and interruptions in flight together
SpecInterrupt == Init /\ [][NextInterrupt]_vars

\* the lifecycle with disconnect() called again and again
NextTeardown == Lifecycle(TeardownCalls, TeardownDiscs)

SpecTeardown == Init /\ [][NextTeardown]_vars

\* ---- PCM helpers, src/services/gemini.ts lines 382-434 ----
\* gemini.ts line 389: the factor between a sample and its 16-bit value
Scale == 32768

\* the values of a 16-bit array element
Int16Range == 2 * Scale

\* sample steps per 16-bit unit: the sample s is the integer q = s * Scale *
\* Frac, so that s * Scale = q / Frac has a fractional part (all these
\* samples are exact in a Float32Array)
Frac == 4

\* the sample 1.0
One == Scale * Frac

Abs(x) == IF x >= 0 THEN x ELSE -x

\* samples of [-1, 1] near -1, 0 and 1, endpoints included
Samples ==
  (-MaxOff..MaxOff) \cup {One - k : k \in 0..MaxOff}
                    \cup {k - One : k \in 0..MaxOff}

\* frames of 1..MaxLen samples
Frames16 == UNION {[1..n -> Samples] : n \in 1..MaxLen}

\* the store `int16[i] = x` of a number x = q / Frac into an Int16Array
\* (line 389): the fraction is dropped (toward zero) and the integer is
\* taken modulo 2^16 into -32768..32767
ToInt16(q) ==
  LET t == IF q >= 0 THEN q \div Frac ELSE -((-q) \div Frac)
      u == t % Int16Range
  IN  IF u >= Scale THEN u - Int16Range ELSE u

\* Math.round of the number q / Frac: the nearest integer, halves upwards
Round(q) == (2 * q + Frac) \div (2 * Frac)

\* line 394, `new Uint8Array(int16.buffer)`: the two bytes of each 16-bit
\* value, low byte first
RECURSIVE BytesOf(_)
BytesOf(int16) ==
  IF int16 = <<>> THEN <<>>
  ELSE LET u == Head(int16) % Int16Range
       IN  <<u % 256, u \div 256>> \o BytesOf(Tail(int16))

\* line 423, `new Int16Array(data.buffer)`: pairs of bytes read as signed
\* 16-bit values, low byte first
RECURSIVE Int16Of(_)
Int16Of(bytes) ==
  IF Len(bytes) < 2 THEN <<>>
  ELSE LET u == bytes[1] + 256 * bytes[2]
       IN  <<IF u >= Scale THEN u - Int16Range ELSE u>>
             \o Int16Of(SubSeq(bytes, 3, Len(bytes)))

\* the padding character of base 64; the other characters are 0..63
Pad == 64

\* btoa (line 399) on the binary string of the bytes: three bytes make four
\* characters of six bits, the last group is padded
RECURSIVE btoa(_)
btoa(b) ==
  IF Len(b) = 0 THEN <<>>
  ELSE IF Len(b) = 1
  THEN <<b[1] \div 4, (b[1] % 4) * 16, Pad, Pad>>
  ELSE IF Len(b) = 2
  THEN <<b[1] \div 4, (b[1] % 4) * 16 + b[2] \div 16, (b[2] % 16) * 4, Pad>>
  ELSE <<b[1] \div 4, (b[1] % 4) * 16 + b[2] \div 16,
         (b[2] % 16) * 4 + b[3] \div 64, b[3] % 64>>
         \o btoa(SubSeq(b, 4, Len(b)))

\* atob (line 408): four characters make up to three bytes
RECURSIVE atob(_)
atob(t) ==
  IF Len(t) < 4 THEN <<>>
  ELSE LET b1 == t[1] * 4 + t[2] \div 16
           b2 == (t[2] % 16) * 16 + t[3] \div 4
           b3 == (t[3] % 4) * 64 + t[4]
       IN  (IF t[3] = Pad THEN <<b1>>
            ELSE IF t[4] = Pad THEN <<b1, b2>>
            ELSE <<b1, b2, b3>>) \o atob(SubSeq(t, 5, Len(t)))

\* lines 382-405: the base-64 text of the frame's 16-bit values
createBlob(data) ==
  btoa(BytesOf([i \in DOMAIN data |-> ToInt16(data[i])]))

\* lines 407-415: the bytes of a base-64 text
decode(base64) == atob(base64)

\* lines 417-434: the samples of channel `channel`, in sample steps: the
\* 16-bit value v becomes v / 32768, that is v * Frac steps
decodeAudioData(data, numChannels, channel) ==
  LET dataInt16 == Int16Of(data)
      frameCount == Len(dataInt16) \div numChannels
  IN  [i \in 1..frameCount |->
         dataInt16[(i - 1) * numChannels + channel] * Frac]

\* a frame of samples is chosen
InitCodec ==
  /\ Init!1 /\ Init!2 /\ Init!3 /\ Init!4 /\ Init!5 /\ Init!6 /\ Init!7
  /\ Init!8 /\ Init!9 /\ Init!10 /\ Init!11 /\ Init!12 /\ Init!13
  /\ Init!14 /\ Init!15 /\ Init!17 /\ Init!18 /\ Init!19
  /\ \E f \in Frames16 : codec = [NoCodec EXCEPT !.pc = "samples",
                                                 !.samples = f]

lsm == <<active, sessionPromise, inputAudioContext, outputAudioContext,
         outputGain, nextStartTime, sources, calls, discs, ctxs, sessions,
         handlers, sched, msgCount, since>>

Encode ==
  /\ codec.pc = "samples"
  /\ codec' = [codec EXCEPT !.pc = "encoded",
                            !.blob = createBlob(codec.samples)]
  /\ UNCHANGED <<lsm, views>>

Decode ==
  /\ codec.pc = "encoded"
  /\ codec' = [codec EXCEPT !.pc = "bytes", !.bytes = decode(codec.blob)]
  /\ UNCHANGED <<lsm, views>>

DecodeAudio ==
  /\ codec.pc = "bytes"
  /\ codec' = [codec EXCEPT !.pc = "decoded",
                            !.out = decodeAudioData(codec.bytes, 1, 1)]
  /\ UNCHANGED <<lsm, views>>

NextCodec == Encode \/ Decode \/ DecodeAudio

SpecCodec == InitCodec /\ [][NextCodec]_vars

\* ---- voice components and their teardown ----
\* part_003 lines 83-249 (BeaverAgent) and 414-520 (LiveAssistant): the
\* effect that opens a live session, and its cleanup; BeaverWelcome.tsx
\* lines 17-22: the cleanup that calls disconnect() on the manager
\* sessionPromise.current holds a promise that is not resolved yet
Unresolved == -1

\* a mounted component of kind k whose effect has just run: init() has
\* called connectLiveSession (part_003 lines 111, 427) and waits for it.
\* promise: sessionPromise.current, Null (BeaverAgent, line 40), Unresolved
\* (LiveAssistant, line 415) or the session it resolved with; closers: the
\* `then(s => s.close())` callbacks waiting on an unresolved promise; conns:
\* the state of the session of every run of the effect
NewAgent(k) ==
  [kind |-> k, mounted |-> TRUE,
   promise |-> IF k = "LiveAssistant" THEN Unresolved ELSE Null,
   closers |-> 0, conns |-> <<"pending">>]

\* session.close() on session i of the component
CloseConn(cs, i) == IF cs[i] = "open" THEN [cs EXCEPT ![i] = "closed"] ELSE cs

\* part_003 lines 234 and 499-501: connectLiveSession resolved for run i.
\* BeaverAgent stores a resolved promise in the ref; LiveAssistant resolves
\* the promise of the ref, once, and the callbacks waiting on it run.
\* Neither looks at the `active` flag of the effect
AgentEstablished(i) ==
  /\ agent.kind \in {"BeaverAgent", "LiveAssistant"}
  /\ i \in DOMAIN agent.conns /\ agent.conns[i] = "pending"
  /\ agent' =
       IF agent.kind = "BeaverAgent"
       THEN [agent EXCEPT !.conns[i] = "open", !.promise = i]
       ELSE IF agent.promise = Unresolved
       THEN [agent EXCEPT !.promise = i, !.closers = 0,
                          !.conns[i] = IF agent.closers > 0 THEN "closed"
                                       ELSE "open"]
       ELSE [agent EXCEPT !.conns[i] = "open"]
  /\ UNCHANGED <<lsm, codec, welcome, detail>>

\* part_003 lines 235-238 and 503-505: connectLiveSession rejected
AgentConnectFailed(i) ==
  /\ agent.kind \in {"BeaverAgent", "LiveAssistant"}
  /\ i \in DOMAIN agent.conns /\ agent.conns[i] = "pending"
  /\ agent' = [agent EXCEPT !.conns[i] = "failed"]
  /\ UNCHANGED <<lsm, codec, welcome, detail>>

\* part_003 lines 243-248 and 511-519, the cleanup of the effect:
\* `sessionPromise.current?.then((s) => s.close())`
AgentCleanup ==
  IF agent.promise = Null THEN agent
  ELSE IF agent.promise = Unresolved
  THEN [agent EXCEPT !.closers = @ + 1]
  ELSE [agent EXCEPT !.conns = CloseConn(@, agent.promise)]

\* the component is unmounted: the cleanup runs
AgentUnmount ==
  /\ agent.kind \in {"BeaverAgent", "LiveAssistant"}
  /\ agent.mounted
  /\ agent' = [AgentCleanup EXCEPT !.mounted = FALSE]
  /\ UNCHANGED <<lsm, codec, welcome, detail>>

\* part_003 line 249: projectTitle changes, the cleanup runs and the effect
\* runs again
AgentTitleChange ==
  /\ agent.kind = "BeaverAgent"
  /\ agent.mounted
  /\ Len(agent.conns) < MaxRuns
  /\ agent' = [AgentCleanup EXCEPT !.conns = Append(@, "pending")]
  /\ UNCHANGED <<lsm, codec, welcome, detail>>

\* the remote end closes an established session of the component
AgentRemoteClose(i) ==
  /\ agent.kind \in {"BeaverAgent", "LiveAssistant"}
  /\ i \in DOMAIN agent.conns /\ agent.conns[i] = "open"
  /\ agent' = [agent EXCEPT !.conns[i] = "closed"]
  /\ UNCHANGED <<lsm, codec, welcome, detail>>

\* the component that is mounted is a BeaverWelcome and uses the manager
IsWelcome == agent.kind = "BeaverWelcome"

\* one voice component of either kind is mounted
InitUnmount ==
  /\ Init!1 /\ Init!2 /\ Init!3 /\ Init!4 /\ Init!5 /\ Init!6 /\ Init!7
  /\ Init!8 /\ Init!9 /\ Init!10 /\ Init!11 /\ Init!12 /\ Init!13
  /\ Init!14 /\ Init!15 /\ Init!16 /\ Init!18 /\ Init!19
  /\ \/ \E k \in {"BeaverAgent", "LiveAssistant"} : agent = NewAgent(k)
     \/ agent = [kind |-> "BeaverWelcome"]

\* the life of the component up to and after its teardown: a welcome
\* screen connects while it is mounted and calls disconnect() once, in its
\* cleanup (BeaverWelcome.tsx lines 19-21)
NextUnmount ==
  \/ IsWelcome /\ discs = <<>> /\ Len(calls) < UnmountCalls /\ ConnectCall
  \/ IsWelcome /\ \E c \in DOMAIN calls : MicDenied(c)
  \/ IsWelcome /\ \E c \in DOMAIN calls : MicGranted(c)
  \/ IsWelcome /\ \E s \in DOMAIN sessions : TransportOpen(s)
  \/ IsWelcome /\ \E s \in DOMAIN sessions : TransportFail(s)
  \/ IsWelcome /\ \E s \in DOMAIN sessions : TransportError(s)
  \/ IsWelcome /\ \E s \in DOMAIN sessions : TransportClose(s)
  \/ IsWelcome /\ discs = <<>> /\ DisconnectCall
  \/ IsWelcome /\ \E d \in DOMAIN discs : DisconnectResume(d)
  \/ \E i \in 1..MaxRuns : AgentEstablished(i)
  \/ \E i \in 1..MaxRuns : AgentConnectFailed(i)
  \/ AgentUnmount
  \/ AgentTitleChange
  \/ \E i \in 1..MaxRuns : AgentRemoteClose(i)

\* what is bound to happen: a permission request, a connection attempt and
\* a connectLiveSession call settle, an awaiting disconnect() resumes, and
\* the close event of a transport closed by session.close() or an error is
\* delivered.  The user and the remote end are free to do nothing
FairUnmount ==
  /\ WF_vars(\E c \in DOMAIN calls : MicDenied(c) \/ MicGranted(c))
  /\ WF_vars(\E s \in DOMAIN sessions : TransportOpen(s) \/ TransportFail(s))
  /\ WF_vars(\E s \in DOMAIN sessions :
               sessions[s].closeEvt /\ TransportClose(s))
  /\ WF_vars(\E d \in DOMAIN discs : DisconnectResume(d))
  /\ WF_vars(\E i \in 1..MaxRuns :
               AgentEstablished(i) \/ AgentConnectFailed(i))

SpecUnmount == InitUnmount /\ [][NextUnmount]_vars /\ FairUnmount

\* ---- toggleConnection, BeaverWelcome.tsx lines 24-48 ----
\* the call toggleConnection awaits has returned: its continuation is the
\* next job to run
ReturnReady ==
  \/ welcome.pc = "connect" /\ calls[welcome.at].pc # "mic"
  \/ welcome.pc = "disconnect" /\ discs[welcome.at].pc # "await"

\* lines 27-28 and 45: toggleConnection goes on after its await; a
\* disconnect() that threw ends it there
WelcomeReturned ==
  /\ ReturnReady
  /\ welcome' =
       IF welcome.pc = "connect"
       THEN [welcome EXCEPT !.pc = "idle", !.isConnected = TRUE]
       ELSE IF discs[welcome.at].pc = "done"
       THEN [welcome EXCEPT !.pc = "idle", !.isConnected = FALSE]
       ELSE [welcome EXCEPT !.pc = "idle"]
  /\ UNCHANGED <<lsm, codec, agent, detail>>

\* a welcome screen is mounted, its manager just constructed
InitWelcome ==
  /\ Init!1 /\ Init!2 /\ Init!3 /\ Init!4 /\ Init!5 /\ Init!6 /\ Init!7
  /\ Init!8 /\ Init!9 /\ Init!10 /\ Init!11 /\ Init!12 /\ Init!13
  /\ Init!14 /\ Init!15 /\ Init!16 /\ Init!17 /\ Init!19
  /\ welcome = NewWelcome

\* the button is pressed while no toggleConnection is running: line 25
\* chooses between disconnect() and connect(); the events of the manager
\* come when no continuation of toggleConnection is ready to run
NextWelcome ==
  \/ /\ welcome.pc = "idle" /\ ~welcome.isConnected
     /\ Len(calls) < WelcomeCalls /\ ConnectCall
  \/ /\ welcome.pc = "idle" /\ welcome.isConnected
     /\ Len(discs) < WelcomeDiscs /\ DisconnectCall
  \/ WelcomeReturned
  \/ ~ReturnReady /\ \E c \in DOMAIN calls : MicDenied(c)
  \/ ~ReturnReady /\ \E c \in DOMAIN calls : MicGranted(c)
  \/ ~ReturnReady /\ \E s \in DOMAIN sessions : TransportOpen(s)
  \/ ~ReturnReady /\ \E s \in DOMAIN sessions : TransportFail(s)
  \/ ~ReturnReady /\ \E s \in DOMAIN sessions : TransportError(s)
  \/ ~ReturnReady /\ \E s \in DOMAIN sessions : TransportClose(s)
  \/ ~ReturnReady /\ \E d \in DOMAIN discs : DisconnectResume(d)

SpecWelcome == InitWelcome /\ [][NextWelcome]_vars

\* ---- votes, part_006 lines 39-56 and part_002 lines 73-80, 144-153 ----
Ideas == 1..MaxIdeas

\* part_006 lines 39-50: the stored count of the idea goes up by one
\* (votes: the map kept in localStorage, a missing entry counting as 0)
voteIdea(votes, ideaId) == [votes EXCEPT ![ideaId] = @ + 1]

\* part_006 lines 52-56: baseVotes + (votes[ideaId] || 0)
getVoteCount(votes, ideaId, baseVotes) == baseVotes + votes[ideaId]

\* part_002 lines 73-80: the ideas are loaded and each is shown with
\* getVoteCount of its own vote count.  base: the vote counts getIdeas
\* returns; stored: the localStorage map; shown: the votes field of the
\* ideas in the component's state; pressed: presses of a vote button so far
LoadIdeas(base, stored, n) ==
  [pc |-> "loaded", base |-> base, stored |-> stored,
   shown |-> [i \in Ideas |-> getVoteCount(stored, i, base[i])],
   pressed |-> n]

\* the project page is shown, with votes stored by earlier visits
InitVotes ==
  /\ Init!1 /\ Init!2 /\ Init!3 /\ Init!4 /\ Init!5 /\ Init!6 /\ Init!7
  /\ Init!8 /\ Init!9 /\ Init!10 /\ Init!11 /\ Init!12 /\ Init!13
  /\ Init!14 /\ Init!15 /\ Init!16 /\ Init!17 /\ Init!18
  /\ \E base \in [Ideas -> 0..MaxBase], stored \in [Ideas -> 0..MaxStored] :
       detail = LoadIdeas(base, stored, 0)

\* part_002 lines 144-153: handleVote(ideaId)
handleVote(ideaId) ==
  /\ detail.pressed < MaxVotes
  /\ LET votes == voteIdea(detail.stored, ideaId)
     IN  detail' = [detail EXCEPT
                      !.stored = votes,
                      !.shown[ideaId] = getVoteCount(votes, ideaId, @),
                      !.pressed = @ + 1]
  /\ UNCHANGED <<lsm, codec, agent, welcome>>

\* part_002 line 80: the project changes and comes back, the ideas are
\* loaded again
ReloadIdeas ==
  /\ detail' = LoadIdeas(detail.base, detail.stored, detail.pressed)
  /\ detail' # detail
  /\ UNCHANGED <<lsm, codec, agent, welcome>>

NextVotes ==
  \/ \E i \in Ideas : handleVote(i)
  \/ ReloadIdeas

SpecVotes == InitVotes /\ [][NextVotes]_vars

\* ---- observations used by the claims ----
LiveSessions == {s \in DOMAIN sessions : Live(s)}

OpenCtx(k) == ctxs[k].inp # "closed" \/ ctxs[k].out # "closed"

\* connect() invocation c has just been refused the microphone
DeniedNow(c) == calls[c].pc = "mic" /\ calls'[c].pc = "denied"

\* connect() invocation c has just been granted the microphone
GrantedNow(c) == calls[c].pc = "mic" /\ calls'[c].pc = "granted"

\* a disconnect() has completed, no connect() was called after it, and every
\* asynchronous step of the earlier connect() calls has run
SettledAfterDisconnect ==
  /\ since = "disconnect"
  /\ \A d \in DOMAIN discs : discs[d].pc = "done"
  /\ \A c \in DOMAIN calls : calls[c].pc # "mic"
  /\ \A s \in DOMAIN sessions : sessions[s].st # "pending"

\* ---- claims ----

\* C1: connect() called while the manager is already active is a no-op: a
\* connect() call that follows another back-to-back (no disconnect, error or
\* close in between) returns at the guard, creating no audio context and
\* opening no transport, so that the two calls together invoke the
\* transport connection routine at most once.
C1_ConnectWhileActiveIsNoop ==
  \A i \in DOMAIN calls :
    calls[i].b2b =>
      /\ calls[i].pc = "noop" /\ calls[i].ctx = Null /\ calls[i].sess = Null
      /\ Cardinality({j \in {i - 1, i} : calls[j].sess # Null}) <= 1

\* C1 witness: the first of two back-to-back calls has opened its transport,
\* the second one has returned
C1_Witness ==
  \E i \in DOMAIN calls :
    calls[i].b2b /\ calls[i - 1].sess # Null /\ calls[i].pc = "noop"

\* C2: at most one transport session opened by the manager is live (pending
\* or established and not yet closed) at any time.
C2_AtMostOneLiveSession == Cardinality(LiveSessions) <= 1

\* C3: once a disconnect() has completed and every pending asynchronous step
\* of the earlier connect() calls has run, no audio context created by the
\* manager remains unclosed and no transport session remains open.
C3_DisconnectLeavesNothingOpen ==
  SettledAfterDisconnect =>
    /\ \A k \in DOMAIN ctxs : ~OpenCtx(k)
    /\ \A s \in DOMAIN sessions : sessions[s].st # "open"

\* C4: if disconnect() is called while connect() is suspended awaiting the
\* microphone permission, connect() aborts when the permission is granted:
\* it opens no transport session (and so wires no capture stream).
C4_GrantAfterDisconnectAborts ==
  [][\A c \in DOMAIN calls :
       (GrantedNow(c) /\ calls[c].cancelled) =>
         (sessions' = sessions /\ calls'[c].sess = Null)]_vars

\* C5: while isActive() is false no captured frame causes a
\* sendRealtimeInput call: a frame delivered then queues no send, and a send
\* queued while the manager was active is skipped when its continuation runs
\* after the manager became inactive.
C5_NoSendWhileInactive ==
  [][~active =>
       \A s \in DOMAIN sessions :
         /\ sessions'[s].sends = sessions[s].sends
         /\ sessions'[s].queued <= sessions[s].queued]_vars

\* C5 witness: a send queued while active was skipped by its continuation
C5_Witness ==
  \E s \in DOMAIN sessions : sessions[s].dropped > 0 /\ sessions[s].sends = 0

\* C6: when the microphone permission is denied, connect() invokes onError
\* exactly once, leaves isActive() false and never opens a transport session
\* for that call.
C6_DenialReportsOnceAndDeactivates ==
  [][\A c \in DOMAIN calls :
       /\ DeniedNow(c) =>
            /\ active' = FALSE
            /\ calls'[c].errs = 1
            /\ calls'[c].sess = Null
            /\ sessions' = sessions
       /\ calls[c].pc = "denied" => calls'[c] = calls[c]]_vars

\* C6 witness: a connect() call was refused the microphone while the manager
\* was still active on its behalf
C6_Witness ==
  \E c \in DOMAIN calls : calls[c].pc = "denied" /\ ~active /\ discs = <<>>

\* C7: when the microphone permission is denied, no audio context created by
\* that connect() call is left open once connect() has returned.
C7_DenialLeavesNoContextOpen ==
  \A c \in DOMAIN calls : calls[c].pc = "denied" => ~OpenCtx(calls[c].ctx)

\* the step has just handled an interruption flag (lines 157-167)
InterruptedNow ==
  Len(sched') > Len(sched) /\ sched'[Len(sched')].kind = "interrupt"

\* entries i and i+1 of the schedule are chunks of one session, started on
\* the same playback context (one clock), with no interruption handled
\* between them
Consecutive(i) ==
  /\ i \in 1..(Len(sched) - 1)
  /\ sched[i].kind = "chunk" /\ sched[i + 1].kind = "chunk"
  /\ sched[i].sess = sched[i + 1].sess
  /\ sched[i].ctx = sched[i + 1].ctx

\* the time at which chunk i is scheduled to finish
EndOf(i) == sched[i].start + sched[i].dur

\* C8: after an interrupted message has been processed the active-chunks set
\* is empty and nextStartTime is 0, however many chunks were scheduled
\* before, and also when the same message carried audio.
C8_InterruptionClears ==
  [][InterruptedNow => sources' = {} /\ nextStartTime' = 0]_vars

\* C8 witness: two chunks were scheduled, the second by the message that
\* carried the interruption flag, and the interruption has been handled
C8_Witness ==
  /\ Len(sched) = 3
  /\ sched[1].kind = "chunk" /\ sched[2].kind = "chunk"
  /\ sched[3].kind = "interrupt"
  /\ sources = {} /\ nextStartTime = 0

\* C9: no overlap: for consecutive chunks of one session with no
\* interruption between them, start(i+1) >= start(i) + d(i), whatever the
\* arrival times, the resume and decode delays and the advance of the
\* playback clock.
C9_NoOverlap ==
  \A i \in DOMAIN sched : Consecutive(i) => sched[i + 1].start >= EndOf(i)

\* C9 witness: a chunk scheduled after the playback clock had advanced past
\* the end of its predecessor starts later than that end
C9_Witness ==
  \E i \in DOMAIN sched : Consecutive(i) /\ sched[i + 1].start > EndOf(i)

DisconnectCalledNow == Len(discs') = Len(discs) + 1

\* the step ends disconnect() invocation d: its promise settles
DisconnectReturnsNow(d) ==
  /\ d \in DOMAIN discs'
  /\ discs'[d].pc # "await"
  /\ d \in DOMAIN discs => discs[d].pc = "await"

\* C11: disconnect() is idempotent: called twice in a row, or on a manager
\* that never connected, it raises no error, and isActive() is false after
\* each call (at the call, and at its return when no connect() was called
\* in between).
C11_DisconnectIdempotent ==
  [][/\ DisconnectCalledNow => ~active'
     /\ \A d \in DOMAIN discs' :
          DisconnectReturnsNow(d) =>
            /\ discs'[d].pc = "done"
            /\ since' = "disconnect" => ~active']_vars

\* C11 witness: after the one connect() call, a first disconnect() awaited
\* the session promise and returned, and a second one found the session
\* reference cleared and returned as well
C11_Witness ==
  /\ Len(calls) = 1 /\ Len(discs) = 2
  /\ discs[1].pc = "done" /\ discs[1].promise # Null
  /\ discs[2].pc = "done" /\ discs[2].promise = Null
  /\ ~active

\* the step delivers an error event of transport s: an established transport
\* dies with its close event still to come, or a pending one fails
ErrorNow(s) ==
  /\ discs' = discs
  /\ \/ /\ sessions[s].st = "open"
        /\ sessions'[s].st = "closed" /\ sessions'[s].closeEvt
     \/ sessions[s].st = "pending" /\ sessions'[s].st = "failed"

\* C12: after a transport error event isActive() is false and onError has
\* been invoked with the error (once, on the callbacks of the connect() call
\* that opened the transport).
C12_ErrorDeactivatesAndReports ==
  [][\A s \in DOMAIN sessions :
       ErrorNow(s) =>
         /\ ~active'
         /\ calls'[sessions[s].call].errs =
              calls[sessions[s].call].errs + 1]_vars

\* C12 witness: an established transport reported an error while nothing
\* had been disconnected: its call's onError ran and the manager is inactive
C12_Witness ==
  \E s \in DOMAIN sessions :
    /\ sessions[s].st = "closed" /\ sessions[s].closeEvt
    /\ calls[sessions[s].call].errs = 1
    /\ discs = <<>> /\ ~active

\* the step delivers the close event of transport s
CloseNow(s) ==
  /\ sessions[s].st = "open" \/ sessions[s].closeEvt
  /\ sessions'[s].st = "closed" /\ ~sessions'[s].closeEvt

\* C13: after a transport close event isActive() is false, and the manager
\* does not reconnect by itself: the close handler opens no transport and
\* starts no connect(), and a transport is only ever opened by a connect()
\* call that the caller made, when its microphone request is granted.
C13_CloseDeactivatesNoReconnect ==
  [][/\ \A s \in DOMAIN sessions :
          CloseNow(s) =>
            ~active' /\ Len(sessions') = Len(sessions) /\ calls' = calls
     /\ Len(sessions') > Len(sessions) =>
          \E c \in DOMAIN calls :
            GrantedNow(c) /\ calls'[c].sess = Len(sessions')]_vars

\* C13 witness: the remote end closed the established transport (nothing
\* was disconnected); the manager is inactive and no transport is live
C13_Witness ==
  /\ discs = <<>> /\ ~active
  /\ LiveSessions = {}
  /\ \E s \in DOMAIN sessions :
       sessions[s].st = "closed" /\ ~sessions[s].closeEvt

\* C14: for every sample s in [-1, 1], endpoints included, the 16-bit value
\* the frame encoder produces (read back from its base-64 text) differs by at
\* most 1 from round(s * 32768); the 16-bit store wraps modulo 2^16.
C14_QuantizationBound ==
  codec.pc = "bytes" =>
    LET int16 == Int16Of(codec.bytes)
    IN  /\ Len(int16) = Len(codec.samples)
        /\ \A i \in DOMAIN codec.samples :
             Abs(int16[i] - Round(codec.samples[i])) <= 1

\* C15: for mono input, encoding a frame to 16-bit PCM and decoding it back
\* to floating point gives back every sample of [-1, 1] to within 1/32768
\* (Frac sample steps).
C15_RoundTripBound ==
  codec.pc = "decoded" =>
    /\ Len(codec.out) = Len(codec.samples)
    /\ \A i \in DOMAIN codec.samples :
         Abs(codec.out[i] - codec.samples[i]) <= Frac

\* a disconnect() invocation is suspended at the session promise
Disconnecting == \E d \in DOMAIN discs : discs[d].pc = "await"

\* C16: disconnect() marks the session inactive before it awaits the
\* transport: from its call until it completes, with no connect() called in
\* between, isActive() is false and no captured frame is transmitted.
C16_InactiveWhileDisconnecting ==
  [][/\ DisconnectCalledNow => ~active'
     /\ (Disconnecting /\ since = "disconnect") =>
          /\ ~active
          /\ \A s \in DOMAIN sessions :
               sessions'[s].sends = sessions[s].sends]_vars

\* C16 witness: while a disconnect() is suspended at the session promise,
\* a frame captured for that session was skipped instead of sent
C16_Witness ==
  /\ since = "disconnect" /\ ~active
  /\ \E d \in DOMAIN discs :
       /\ discs[d].pc = "await"
       /\ sessions[discs[d].promise].dropped > 0

\* the last call of the API was a disconnect() and every disconnect() has
\* returned
DisconnectCompleted ==
  since = "disconnect" /\ \A d \in DOMAIN discs : discs[d].pc # "await"

\* C17: after disconnect() completes, the active-chunks set is empty and
\* stays empty until the next connect(), also when a message arrives
\* afterwards or when the resume or decode of an audio message was in flight
\* at the time disconnect() was called.
C17_NoChunkAfterDisconnect == DisconnectCompleted => sources = {}

\* the step ends disconnect() invocation d after its try block failed: the
\* session promise rejected or close() threw
ReturnsAfterFailureNow(d) ==
  discs[d].pc = "await" /\ discs'[d].pc # "await" /\ discs'[d].caught

\* C18: if closing the transport fails (the session promise rejects or
\* close() throws), disconnect() still resolves without raising to the
\* caller, closes both audio contexts, stops and clears every scheduled
\* chunk, and clears the session reference.
C18_DisconnectSurvivesCloseFailure ==
  [][\A d \in DOMAIN discs :
       ReturnsAfterFailureNow(d) =>
         /\ discs'[d].pc = "done"
         /\ inputAudioContext # Null /\ outputAudioContext # Null
         /\ ctxs'[inputAudioContext].inp = "closed"
         /\ ctxs'[outputAudioContext].out = "closed"
         /\ sources' = {}
         /\ sessionPromise' = Null]_vars

\* C18 witness: a disconnect() whose close() threw has returned after a chunk
\* had been scheduled; nothing is left in the set and the reference is clear
C18_Witness ==
  /\ \E d \in DOMAIN discs : discs[d].pc = "done" /\ discs[d].caught
  /\ \E i \in DOMAIN sched : sched[i].kind = "chunk"
  /\ sources = {} /\ sessionPromise = Null

\* C19: a transport error or close event changes only the active flag (and
\* calls onError, for an error): the audio contexts are not closed, the
\* active-chunks set and nextStartTime are unchanged, and the session
\* reference is kept; they stay so until an explicit disconnect().
C19_EventsReleaseNothing ==
  [][\A s \in DOMAIN sessions :
       (ErrorNow(s) \/ CloseNow(s)) =>
         /\ ctxs' = ctxs
         /\ sources' = sources
         /\ nextStartTime' = nextStartTime
         /\ sessionPromise' = sessionPromise
         /\ inputAudioContext' = inputAudioContext
         /\ outputAudioContext' = outputAudioContext
         /\ outputGain' = outputGain]_vars

\* C19 witness: the transport has ended by an error or a close event and
\* nothing was disconnected: a scheduled chunk is still in the set, the
\* cursor is ahead, the playback context is open and the reference is kept
C19_Witness ==
  /\ discs = <<>> /\ ~active
  /\ sessionPromise # Null /\ sessions[sessionPromise].st = "closed"
  /\ sources # {} /\ nextStartTime > 0
  /\ ctxs[outputAudioContext].out # "closed"

\* the step ends handler h on a decode that failed (lines 152-154)
DecodeFailedNow(h) ==
  /\ handlers[h].pc = "decode" /\ handlers[h].audio = BadAudio
  /\ handlers' = RemoveAt(handlers, h)

\* C20: if decoding an incoming audio chunk fails, the chunk is dropped and
\* the session continues: isActive() keeps its value, no chunk is added to
\* the active-chunks set, onError is not invoked, the transport is left
\* alone, and an interruption flag in the same message is still handled
\* (later messages go through the same handler).
C20_DecodeFailureDropsChunk ==
  [][\A h \in DOMAIN handlers :
       DecodeFailedNow(h) =>
         /\ active' = active
         /\ calls' = calls
         /\ sessions' = sessions
         /\ \A i \in DOMAIN sched' : i \notin DOMAIN sched =>
              sched'[i].kind = "interrupt"
         /\ IF handlers[h].interrupted
            THEN InterruptedNow /\ sources' = {} /\ nextStartTime' = 0
            ELSE /\ sources' = sources /\ sched' = sched
                 /\ nextStartTime' = nextStartTime]_vars

\* C20 witness: a message whose audio failed to decode had its interruption
\* flag handled, the chunk of a later message was scheduled, the manager is
\* still active and onError never ran
C20_Witness ==
  /\ active
  /\ \A c \in DOMAIN calls : calls[c].errs = 0
  /\ \E i, j \in DOMAIN sched :
       /\ i < j
       /\ sched[i].kind = "interrupt" /\ sched[i].audio = BadAudio
       /\ sched[j].kind = "chunk" /\ j \in sources

\* the step has just started a chunk (line 146): the new entry of the log
ScheduledNow ==
  Len(sched') > Len(sched) /\ sched'[Len(sched) + 1].kind = "chunk"

\* C21: whenever a chunk of duration d is scheduled with start time s, the
\* chunk starts at the cursor and nextStartTime becomes s + d in the same
\* step, before the chunk has played (or 0 when the same message carries
\* the interruption flag); nextStartTime never decreases except by the
\* reset to 0 on an interruption.
C21_CursorAdvancesAtScheduling ==
  [][/\ ScheduledNow =>
          LET c == sched'[Len(sched) + 1]
          IN  /\ c.start = nextStartTime
              /\ Len(sched) + 1 \in sources' \/ InterruptedNow
              /\ IF InterruptedNow THEN nextStartTime' = 0
                 ELSE nextStartTime' = c.start + c.dur
     /\ nextStartTime' < nextStartTime =>
          InterruptedNow /\ nextStartTime' = 0]_vars

\* C21 witness: the chunk scheduled last starts after time 0, has not
\* finished, and the cursor already stands at its end
C21_Witness ==
  /\ sched # <<>>
  /\ LET c == sched[Len(sched)]
     IN  /\ c.kind = "chunk" /\ c.start > 0
         /\ Len(sched) \in sources
         /\ nextStartTime = c.start + c.dur
         /\ ctxs[c.ctx].clock < c.start + c.dur

\* every member of the set is a chunk of the log that was started after the
\* last interruption
SourcesAreStartedChunks ==
  \A i \in sources :
    /\ i \in DOMAIN sched /\ sched[i].kind = "chunk"
    /\ \A j \in DOMAIN sched : j > i => sched[j].kind # "interrupt"

\* chunk c has played to its end on its context
PlayedOut(c) ==
  ctxs[sched[c].ctx].clock >= Max(sched[c].start, sched[c].at) + sched[c].dur

\* C22: the active-chunks set holds exactly the chunks that were started and
\* have neither finished nor been stopped: it starts empty, a chunk enters
\* it in the step that starts it and at no other time, and chunks leave it
\* only one at a time on their own completion event, or all together on an
\* interruption or in the last lines of disconnect().
C22_SourcesAreThePlayingChunks ==
  [][/\ SourcesAreStartedChunks'
     /\ (ScheduledNow /\ ~InterruptedNow) =>
          sources' = sources \cup {Len(sched) + 1}
     /\ sources' \ sources # {} =>
          ScheduledNow /\ sources' = sources \cup {Len(sched) + 1}
     /\ sources \ sources' # {} =>
          \/ InterruptedNow /\ sources' = {}
          \/ (\E d \in DOMAIN discs' : DisconnectReturnsNow(d)) /\ sources' = {}
          \/ \E c \in sources :
               PlayedOut(c) /\ sources' = sources \ {c}]_vars

\* C22 witness: of two chunks started with no interruption and no
\* disconnect(), the first has played out and left the set, the second is
\* still in it
C22_Witness ==
  /\ discs = <<>>
  /\ \A k \in DOMAIN sched : sched[k].kind = "chunk"
  /\ \E i, j \in DOMAIN sched :
       i < j /\ PlayedOut(i) /\ i \notin sources /\ j \in sources

\* the step is a call of connect()
ConnectCalledNow == Len(calls') = Len(calls) + 1

\* C23: after disconnect() completes the session reference is cleared, and
\* a connect() called then is not a no-op: it marks the manager active and
\* creates fresh audio contexts, and when the microphone is granted it
\* creates a fresh session, opens a new transport and stores its promise.
C23_ReconnectAfterDisconnect ==
  [][/\ \A d \in DOMAIN discs' :
          DisconnectReturnsNow(d) => sessionPromise' = Null
     /\ (DisconnectCompleted /\ ConnectCalledNow) =>
          LET c == calls'[Len(calls')]
          IN  /\ ~active /\ active'
              /\ c.pc = "mic"
              /\ c.ctx = Len(ctxs) + 1 /\ Len(ctxs') = Len(ctxs) + 1
              /\ ctxs'[c.ctx].inp # "closed" /\ ctxs'[c.ctx].out # "closed"
              /\ inputAudioContext' = c.ctx /\ outputAudioContext' = c.ctx
     /\ \A c \in DOMAIN calls :
          GrantedNow(c) =>
            /\ sessions' = Append(sessions, NewSession(c))
            /\ sessionPromise' = Len(sessions) + 1
            /\ calls'[c].sess = Len(sessions) + 1]_vars

\* C23 witness: the first session was disconnected and its transport closed;
\* the second connect() call has opened a second transport, which is
\* established, on contexts of its own
C23_Witness ==
  /\ Len(calls) = 2 /\ Len(discs) = 1 /\ discs[1].pc = "done"
  /\ calls[1].sess # Null /\ discs[1].promise = calls[1].sess
  /\ sessions[calls[1].sess].st = "closed"
  /\ calls[2].pc = "granted" /\ calls[2].sess # calls[1].sess
  /\ sessionPromise = calls[2].sess /\ sessions[sessionPromise].st = "open"
  /\ calls[2].ctx # calls[1].ctx /\ active

\* the voice component has been torn down
Unmounted ==
  \/ IsWelcome /\ discs # <<>>
  \/ agent.kind \in {"BeaverAgent", "LiveAssistant"} /\ ~agent.mounted

\* no transport session of the component is pending or established
NoLiveTransport ==
  /\ LiveSessions = {}
  /\ agent.kind \in {"BeaverAgent", "LiveAssistant"} =>
       \A i \in DOMAIN agent.conns : agent.conns[i] \notin {"pending", "open"}

\* C24: when a voice component is torn down, its transport session is
\* eventually closed (and stays so), whether the teardown happens before or
\* after the transport session has been established.
C24_TeardownClosesTransport == <>[](Unmounted => NoLiveTransport)

\* C25: a chunk carried by a message received before an interruption message
\* is never started after that interruption has been processed, even if its
\* resume or decode was in flight when the interruption was processed.
C25_NoChunkAfterInterruption ==
  \A c \in DOMAIN sched : sched[c].kind = "chunk" => ~sched[c].late

\* chunk c was carried by a message of the session that connect() opened
\* together with the playback context the chunk plays on, and is the first
\* entry of the playback log on that context
FirstChunkOfSession(c) ==
  /\ sched[c].kind = "chunk"
  /\ calls[sessions[sched[c].sess].call].ctx = sched[c].ctx
  /\ \A j \in 1..(c - 1) : sched[j].ctx # sched[c].ctx

\* C26: after disconnect() and a new connect(), the first audio chunk of the
\* new session is scheduled at the new playback clock's current time: its
\* start time is not later than the clock when it is started; the cursor
\* left over from the previous session does not delay it.
C26_ReconnectStartsAtClock ==
  \A c \in DOMAIN sched :
    FirstChunkOfSession(c) /\ sched[c].ctx > 1 =>
      sched[c].start <= sched[c].at

\* C27: if connect() is called while an earlier disconnect() is still
\* awaiting the transport, the disconnect(), on resuming, tears down only the
\* session that existed when it was called: it does not close the contexts
\* the new connect() created and does not clear the new session reference.
C27_DisconnectSparesNewSession ==
  [][\A d \in DOMAIN discs :
       DisconnectReturnsNow(d) /\ since = "connect" =>
         /\ ctxs'[inputAudioContext] = ctxs[inputAudioContext]
         /\ ctxs'[outputAudioContext] = ctxs[outputAudioContext]
         /\ sessionPromise # discs[d].promise =>
              sessionPromise' = sessionPromise]_vars

\* C28: after disconnect() completes, the microphone stream acquired by
\* connect() has been stopped (no track of it is live), also when the
\* permission was granted only after disconnect() was called.
C28_MicrophoneStoppedAfterDisconnect ==
  DisconnectCompleted => \A c \in DOMAIN calls : calls[c].stream # "live"

\* toggleConnection has finished and no event is pending: no permission
\* request, connection attempt, close event or disconnect() is outstanding
Quiescent ==
  /\ welcome.pc = "idle"
  /\ \A c \in DOMAIN calls : calls[c].pc # "mic"
  /\ \A s \in DOMAIN sessions :
       sessions[s].st # "pending" /\ ~sessions[s].closeEvt
  /\ \A d \in DOMAIN discs : discs[d].pc # "await"

\* C29: in the welcome screen, once toggleConnection has finished and no
\* event is pending, isConnected is true only if the manager's isActive() is
\* true; in particular it is false after a microphone denial and after the
\* transport has closed.
C29_IsConnectedImpliesActive == Quiescent => (welcome.isConnected => active)

\* C30: the vote count displayed for an idea always equals its base votes
\* plus the locally stored vote count for it; as every vote raises the stored
\* count by one, after k votes on an idea the displayed count has risen by
\* exactly k.
C30_ShownIsBasePlusStored ==
  \A i \in Ideas : detail.shown[i] = detail.base[i] + detail.stored[i]

====
